---- MODULE Spec2Model ----
(***************************************************************************)
(* Model of scraper.py: main() starts the Twitter scraper on its own       *)
(* thread, drives run_scrapers() on a fresh event loop (Reddit, AI Weekly  *)
(* and AI Topics awaited one after the other), joins the thread, puts the  *)
(* Twitter buffer on its queue, drains the queue and writes the CSV.       *)
(* One step of the main thread is one segment of code between two awaits;  *)
(* one step of the Twitter thread is one pull from the upstream iterator   *)
(* or one append to its buffer.                                            *)
(***************************************************************************)
EXTENDS Integers, Sequences, FiniteSets, TLC

\* ------------------------------------------------------------------ bounds
MaxLimit == 2        \* largest max_results / max_posts argument explored
MaxFeed == 3         \* largest number of tweets the upstream search holds
MaxPosts == 3        \* largest number of posts in one subreddit response
MaxArticles == 2     \* largest number of article nodes in one HTML page
NumSubreddits == 2   \* how many of the subreddits of line 197 are scraped

\* --------------------------------------------------------------- variables
VARIABLES
    max_results,        \* argument of TwitterScraper.start_scrape
    max_posts,          \* argument of RedditScraper.scrape
    tweet_feed,         \* the items the upstream Twitter search holds
    mainPc,             \* position of the main thread (main + event loop)
    twPc,               \* position of the Twitter thread
    pulled,             \* items the Twitter thread has taken from upstream
    scraped_tweets,     \* local list of TwitterScraper.scrape
    data,               \* self.data of each scraper
    fetch,              \* state of each cooperative scrape() coroutine
    session,            \* cooperative scraper holds an open ClientSession
    response,           \* cooperative scraper holds an open response
    subIdx,             \* index of the subreddit RedditScraper is at
    posts,              \* local `posts` of RedditScraper.scrape
    articles,           \* local `articles` of AIWeeklyScraper.scrape
    local_queue,        \* combined_data of run_scrapers (line 190)
    combined_data,      \* combined_data of main (line 211)
    joined,             \* twitter_scraper.join() has returned
    drain_left,         \* remaining iterations of the comprehension, line 245
    df_data,            \* line 245
    df_flattened_data,  \* line 246
    snapshot            \* rows handed to DataFrame(...).to_csv, line 248-249

vars == <<max_results, max_posts, tweet_feed, mainPc, twPc, pulled,
          scraped_tweets, data, fetch, session, response, subIdx, posts,
          articles, local_queue, combined_data, joined, drain_left, df_data,
          df_flattened_data, snapshot>>

\* ----------------------------------------------------------------- sources
Blocking == {"Twitter"}
Cooperative == {"Reddit", "AI Weekly", "AI Topics"}
Sources == Blocking \cup Cooperative

Exceptions == {"ClientError", "PayloadError", "KeyError", "AttributeError"}

Min(a, b) == IF a < b THEN a ELSE b

subreddits ==
    SubSeq(<<"ChatGPT", "machinelearning", "artificial", "stablediffusion">>,
           1, NumSubreddits)

\* ------------------------------------------------------------ upstream data
\* The i-th item of the upstream Twitter search.
Tweet(i) ==
    [username |-> "user" \o ToString(i), id |-> "tw" \o ToString(i),
     content |-> "tweet" \o ToString(i), date |-> "date" \o ToString(i),
     hashtags |-> "tags" \o ToString(i)]

TweetFeed(n) == [i \in 1..n |-> Tweet(i)]

\* post["data"] of the i-th child of a subreddit listing: a dictionary, here
\* a function whose domain is the set of keys present.
PostKeys == {"author", "id", "title", "created_utc", "url"}

PostData(sub, i, whole) ==
    [k \in (IF whole THEN PostKeys ELSE PostKeys \ {"url"}) |->
        sub \o "/" \o k \o ToString(i)]

\* A listing of n posts; bad = 0, or the index of the one post lacking a key.
Listing(sub, n, bad) == [i \in 1..n |-> PostData(sub, i, i # bad)]

\* An <article> / event-container node: which child elements it has.
Node(i, title, link) == [n |-> i, has_title |-> title, has_link |-> link]

\* The pages explored: up to MaxArticles nodes, each complete or lacking one
\* of its two elements (<<has title, has link>>).
Pages ==
    UNION {[1..n -> {<<TRUE, TRUE>>, <<TRUE, FALSE>>, <<FALSE, TRUE>>}] :
              n \in 0..MaxArticles}

Page(p) == [i \in DOMAIN p |-> Node(i, p[i][1], p[i][2])]

\* ----------------------------------------------------------------- records
\* line 92
TweetRecord(tweet) ==
    <<"Twitter", tweet.username, tweet.id, tweet.content, tweet.date,
      tweet.hashtags>>

\* line 123
RedditRecord(post_data) ==
    <<"Reddit", post_data["author"], post_data["id"], post_data["title"],
      post_data["created_utc"], post_data["url"]>>

\* The tuple of line 144 built without the empty id field.
AIWeeklyRecord_noid(article) ==
    <<"AI Weekly", "AIWeekly", "issue" \o ToString(article.n), "",
      "https://aiweekly.co/issues/" \o ToString(article.n)>>

\* line 144
AIWeeklyRecord(article) ==
    <<"AI Weekly", "AIWeekly", "", "issue" \o ToString(article.n), "",
      "https://aiweekly.co/issues/" \o ToString(article.n)>>

\* line 176
AITopicsRecord(article) ==
    <<"AI Topics", "AITopics", "", "event" \o ToString(article.n), "",
      "https://aitopics.org/event/" \o ToString(article.n)>>

\* ------------------------------------------------------------ pure helpers
\* `if i > max_results: break`: the cap tested one item late.
TwitterLimitReached_late(i, limit) == i > limit

\* `if i >= max_results: break` (lines 85-86)
TwitterLimitReached(i, limit) == i >= limit

\* `if i > max_posts: break`: the cap tested one post late.
RedditLimitReached_late(i, limit) == i > limit

\* `if i >= max_posts: break` (lines 120-121)
RedditLimitReached(i, limit) == i >= limit

\* A wrapper that yields the item of the previous iteration again instead
\* of the current one (the first item twice, the last one never).
run_tqdm_stale(iterable) ==
    [i \in DOMAIN iterable |-> iterable[IF i = 1 THEN 1 ELSE i - 1]]

\* Scraper.run_tqdm: a generator that yields the items of the iterable it
\* wraps, one per iteration of `for item in pbar`.
RECURSIVE run_tqdm(_)
run_tqdm(iterable) ==
    IF iterable = <<>> THEN <<>>
    ELSE <<Head(iterable)>> \o run_tqdm(Tail(iterable))

\* itertools.chain.from_iterable over a list of lists (line 246)
RECURSIVE chain_from_iterable(_)
chain_from_iterable(lists) ==
    IF lists = <<>> THEN <<>>
    ELSE Head(lists) \o chain_from_iterable(Tail(lists))

\* The loop of lines 119-123 over one listing: the records appended before
\* the loop stops, and whether it stopped on a KeyError.
RECURSIVE RedditLoop(_, _, _)
RedditLoop(ps, i, limit) ==
    IF ps = <<>> \/ RedditLimitReached(i, limit)
    THEN [out |-> <<>>, err |-> FALSE]
    ELSE IF PostKeys \subseteq DOMAIN Head(ps)
         THEN LET rest == RedditLoop(Tail(ps), i + 1, limit)
              IN  [out |-> <<RedditRecord(Head(ps))>> \o rest.out,
                   err |-> rest.err]
         ELSE [out |-> <<>>, err |-> TRUE]

\* The loop of lines 139-144: article.h2 is None for a node without a
\* heading, so .get_text raises AttributeError; a node without the issue
\* link is passed over.
RECURSIVE AIWeeklyLoop(_)
AIWeeklyLoop(as) ==
    IF as = <<>> THEN [out |-> <<>>, err |-> FALSE]
    ELSE IF ~Head(as).has_title THEN [out |-> <<>>, err |-> TRUE]
         ELSE LET rest == AIWeeklyLoop(Tail(as))
              IN  [out |-> (IF Head(as).has_link
                            THEN <<AIWeeklyRecord(Head(as))>>
                            ELSE <<>>) \o rest.out,
                   err |-> rest.err]

\* The loop of lines 170-176: a node without title or without link is
\* passed over.
RECURSIVE AITopicsLoop(_)
AITopicsLoop(as) ==
    IF as = <<>> THEN <<>>
    ELSE (IF Head(as).has_title /\ Head(as).has_link
          THEN <<AITopicsRecord(Head(as))>>
          ELSE <<>>) \o AITopicsLoop(Tail(as))

\* -------------------------------------------------------------------- Init
Init ==
    /\ max_results \in 0..MaxLimit
    /\ max_posts \in 0..MaxLimit
    /\ \E n \in 0..MaxFeed : tweet_feed = TweetFeed(n)
    /\ mainPc = "start_scrape"
    /\ twPc = "idle"
    /\ pulled = 0
    /\ scraped_tweets = <<>>
    /\ data = [s \in Sources |-> <<>>]
    /\ fetch = [s \in Cooperative |-> "idle"]
    /\ session = [s \in Cooperative |-> FALSE]
    /\ response = [s \in Cooperative |-> FALSE]
    /\ subIdx = 0
    /\ posts = <<>>
    /\ articles = <<>>
    /\ local_queue = <<>>
    /\ combined_data = <<>>
    /\ joined = FALSE
    /\ drain_left = 0
    /\ df_data = <<>>
    /\ df_flattened_data = <<>>
    /\ snapshot = <<>>

\* --------------------------------------------------------- Twitter thread
\* One iteration of `for i, tweet in enumerate(self.run_tqdm(tweet_iterator))`
\* (lines 84-87): the upstream request raises, or the iterator is exhausted,
\* or an item arrives and is kept unless i >= max_results.
TwitterPull ==
    /\ twPc = "iter"
    /\ \/ /\ twPc' = "died"
          /\ UNCHANGED <<pulled, scraped_tweets>>
       \/ IF pulled = Len(tweet_feed)
          THEN /\ twPc' = "build"
               /\ UNCHANGED <<pulled, scraped_tweets>>
          ELSE LET i == pulled
                   tweet == run_tqdm(tweet_feed)[pulled + 1]
               IN  /\ pulled' = pulled + 1
                   /\ IF TwitterLimitReached(i, max_results)
                      THEN /\ twPc' = "build"
                           /\ UNCHANGED scraped_tweets
                      ELSE /\ scraped_tweets' = Append(scraped_tweets, tweet)
                           /\ UNCHANGED twPc
    /\ UNCHANGED <<max_results, max_posts, tweet_feed, mainPc, data,
                   fetch, session, response, subIdx, posts, articles,
                   local_queue, combined_data, joined, drain_left, df_data,
                   df_flattened_data, snapshot>>

\* The append of line 92 on a `data` list that is one class-level list shared
\* by all scrapers instead of one list per instance.
TwitterAppend_shared ==
    /\ twPc = "build"
    /\ Len(data["Twitter"]) < Len(scraped_tweets)
    /\ data' = [s \in Sources |->
                  Append(data[s],
                         TweetRecord(scraped_tweets[Len(data["Twitter"]) + 1]))]
    /\ UNCHANGED <<max_results, max_posts, tweet_feed, mainPc, twPc,
                   pulled, scraped_tweets, fetch, session, response, subIdx,
                   posts, articles, local_queue, combined_data, joined,
                   drain_left, df_data, df_flattened_data, snapshot>>

\* One iteration of `for tweet in scraped_tweets` (lines 89-92).
TwitterAppend ==
    /\ twPc = "build"
    /\ Len(data["Twitter"]) < Len(scraped_tweets)
    /\ data' = [data EXCEPT !["Twitter"] =
                  Append(@, TweetRecord(scraped_tweets[Len(@) + 1]))]
    /\ UNCHANGED <<max_results, max_posts, tweet_feed, mainPc, twPc,
                   pulled, scraped_tweets, fetch, session, response, subIdx,
                   posts, articles, local_queue, combined_data, joined,
                   drain_left, df_data, df_flattened_data, snapshot>>

\* scrape returns and the thread ends.
TwitterExit ==
    /\ twPc = "build"
    /\ Len(data["Twitter"]) = Len(scraped_tweets)
    /\ twPc' = "done"
    /\ UNCHANGED <<max_results, max_posts, tweet_feed, mainPc,
                   pulled, scraped_tweets, data, fetch, session, response,
                   subIdx, posts, articles, local_queue, combined_data,
                   joined, drain_left, df_data, df_flattened_data, snapshot>>

\* ------------------------------------------------------------- main thread
\* twitter_scraper.start_scrape(...) (lines 221, 70-71)
StartScrape ==
    /\ mainPc = "start_scrape"
    /\ mainPc' = "run_scrapers"
    /\ twPc' = "iter"
    /\ UNCHANGED <<max_results, max_posts, tweet_feed, pulled,
                   scraped_tweets, data, fetch, session, response, subIdx,
                   posts, articles, local_queue, combined_data, joined,
                   drain_left, df_data, df_flattened_data, snapshot>>

\* An exception leaves scraper s whose session is opened without
\* `async with`: nothing closes it.
Raise_leak(s, exc) ==
    /\ fetch' = [fetch EXCEPT ![s] = exc]
    /\ response' = [response EXCEPT ![s] = FALSE]
    /\ mainPc' = "raised"
    /\ UNCHANGED session

\* An exception leaves scraper s: both `async with` blocks release what they
\* hold, nothing in run_scrapers or main catches it, `finally: loop.close()`
\* runs and main ends with the exception (lines 113-116, 197-199, 228-231).
Raise(s, exc) ==
    /\ fetch' = [fetch EXCEPT ![s] = exc]
    /\ session' = [session EXCEPT ![s] = FALSE]
    /\ response' = [response EXCEPT ![s] = FALSE]
    /\ mainPc' = "raised"

\* loop.run_until_complete(run_scrapers(executor)) up to the first await of
\* RedditScraper.scrape (lines 225-229, 190-197, 113-115).
RunScrapers ==
    /\ mainPc = "run_scrapers"
    /\ local_queue' = <<>>
    /\ fetch' = [fetch EXCEPT !["Reddit"] = "running"]
    /\ session' = [session EXCEPT !["Reddit"] = TRUE]
    /\ subIdx' = 1
    /\ mainPc' = "reddit_get"
    /\ UNCHANGED <<max_results, max_posts, tweet_feed, twPc, pulled,
                   scraped_tweets, data, response, posts, articles,
                   combined_data, joined, drain_left, df_data,
                   df_flattened_data, snapshot>>

\* `async with session.get(url, ...) as response` for the next subreddit
\* (lines 114-116): the request succeeds or raises.
RedditGet ==
    /\ mainPc = "reddit_get"
    /\ subIdx <= Len(run_tqdm(subreddits))
    /\ \E ok \in BOOLEAN :
          IF ok
          THEN /\ response' = [response EXCEPT !["Reddit"] = TRUE]
               /\ mainPc' = "reddit_json"
               /\ UNCHANGED <<fetch, session>>
          ELSE Raise("Reddit", "ClientError")
    /\ UNCHANGED <<max_results, max_posts, tweet_feed, twPc, pulled,
                   scraped_tweets, data, subIdx, posts, articles, local_queue,
                   combined_data, joined, drain_left, df_data,
                   df_flattened_data, snapshot>>

\* `await response.json()` and the loop over the posts (lines 117-123).
RedditJson ==
    /\ mainPc = "reddit_json"
    /\ \/ /\ Raise("Reddit", "PayloadError")
          /\ UNCHANGED <<data, posts, subIdx>>
       \/ \E n \in 0..MaxPosts : \E bad \in 0..n :
            LET listing == Listing(run_tqdm(subreddits)[subIdx], n, bad)
                loop == RedditLoop(listing, 0, max_posts)
            IN  /\ posts' = listing
                /\ data' = [data EXCEPT !["Reddit"] = @ \o loop.out]
                /\ IF loop.err
                   THEN /\ Raise("Reddit", "KeyError")
                        /\ UNCHANGED subIdx
                   ELSE /\ response' = [response EXCEPT !["Reddit"] = FALSE]
                        /\ subIdx' = subIdx + 1
                        /\ mainPc' = "reddit_get"
                        /\ UNCHANGED <<fetch, session>>
    /\ UNCHANGED <<max_results, max_posts, tweet_feed, twPc, pulled,
                   scraped_tweets, articles, local_queue, combined_data,
                   joined, drain_left, df_data, df_flattened_data, snapshot>>

\* The subreddits are exhausted: the session is closed and scrape returns
\* (line 113 exit, line 197).
RedditReturn ==
    /\ mainPc = "reddit_get"
    /\ subIdx > Len(run_tqdm(subreddits))
    /\ session' = [session EXCEPT !["Reddit"] = FALSE]
    /\ fetch' = [fetch EXCEPT !["Reddit"] = "returned"]
    /\ posts' = <<>>
    /\ mainPc' = "aiweekly_enter"
    /\ UNCHANGED <<max_results, max_posts, tweet_feed, twPc, pulled,
                   scraped_tweets, data, response, subIdx, articles,
                   local_queue, combined_data, joined, drain_left, df_data,
                   df_flattened_data, snapshot>>

\* await aiweekly_scraper.scrape() up to its first await (lines 198, 133-134)
AIWeeklyEnter ==
    /\ mainPc = "aiweekly_enter"
    /\ fetch' = [fetch EXCEPT !["AI Weekly"] = "running"]
    /\ session' = [session EXCEPT !["AI Weekly"] = TRUE]
    /\ mainPc' = "aiweekly_get"
    /\ UNCHANGED <<max_results, max_posts, tweet_feed, twPc, pulled,
                   scraped_tweets, data, response, subIdx, posts, articles,
                   local_queue, combined_data, joined, drain_left, df_data,
                   df_flattened_data, snapshot>>

\* line 135
AIWeeklyGet ==
    /\ mainPc = "aiweekly_get"
    /\ \E ok \in BOOLEAN :
          IF ok
          THEN /\ response' = [response EXCEPT !["AI Weekly"] = TRUE]
               /\ mainPc' = "aiweekly_text"
               /\ UNCHANGED <<fetch, session>>
          ELSE Raise("AI Weekly", "ClientError")
    /\ UNCHANGED <<max_results, max_posts, tweet_feed, twPc, pulled,
                   scraped_tweets, data, subIdx, posts, articles, local_queue,
                   combined_data, joined, drain_left, df_data,
                   df_flattened_data, snapshot>>

\* `await response.text()`, the parse and the loop over the articles
\* (lines 136-144).
AIWeeklyText ==
    /\ mainPc = "aiweekly_text"
    /\ \/ /\ Raise("AI Weekly", "PayloadError")
          /\ UNCHANGED <<data, articles>>
       \/ \E p \in Pages :
            LET loop == AIWeeklyLoop(run_tqdm(Page(p)))
            IN  /\ articles' = Page(p)
                /\ data' = [data EXCEPT !["AI Weekly"] = @ \o loop.out]
                /\ IF loop.err
                   THEN Raise("AI Weekly", "AttributeError")
                   ELSE /\ response' = [response EXCEPT !["AI Weekly"] = FALSE]
                        /\ mainPc' = "aiweekly_return"
                        /\ UNCHANGED <<fetch, session>>
    /\ UNCHANGED <<max_results, max_posts, tweet_feed, twPc, pulled,
                   scraped_tweets, subIdx, posts, local_queue, combined_data,
                   joined, drain_left, df_data, df_flattened_data, snapshot>>

\* line 133 exit, line 198
AIWeeklyReturn ==
    /\ mainPc = "aiweekly_return"
    /\ session' = [session EXCEPT !["AI Weekly"] = FALSE]
    /\ fetch' = [fetch EXCEPT !["AI Weekly"] = "returned"]
    /\ articles' = <<>>
    /\ mainPc' = "aitopics_enter"
    /\ UNCHANGED <<max_results, max_posts, tweet_feed, twPc, pulled,
                   scraped_tweets, data, response, subIdx, posts, local_queue,
                   combined_data, joined, drain_left, df_data,
                   df_flattened_data, snapshot>>

\* await aitopics_scraper.scrape() up to its first await (lines 199, 164-165)
AITopicsEnter ==
    /\ mainPc = "aitopics_enter"
    /\ fetch' = [fetch EXCEPT !["AI Topics"] = "running"]
    /\ session' = [session EXCEPT !["AI Topics"] = TRUE]
    /\ mainPc' = "aitopics_get"
    /\ UNCHANGED <<max_results, max_posts, tweet_feed, twPc, pulled,
                   scraped_tweets, data, response, subIdx, posts, articles,
                   local_queue, combined_data, joined, drain_left, df_data,
                   df_flattened_data, snapshot>>

\* line 166
AITopicsGet ==
    /\ mainPc = "aitopics_get"
    /\ \E ok \in BOOLEAN :
          IF ok
          THEN /\ response' = [response EXCEPT !["AI Topics"] = TRUE]
               /\ mainPc' = "aitopics_text"
               /\ UNCHANGED <<fetch, session>>
          ELSE Raise("AI Topics", "ClientError")
    /\ UNCHANGED <<max_results, max_posts, tweet_feed, twPc, pulled,
                   scraped_tweets, data, subIdx, posts, articles, local_queue,
                   combined_data, joined, drain_left, df_data,
                   df_flattened_data, snapshot>>

\* `await response.text()`, the parse, the loop over the containers, which
\* raises on none of them, and the return of scrape (lines 167-176, 199).
AITopicsText ==
    /\ mainPc = "aitopics_text"
    /\ \/ /\ Raise("AI Topics", "PayloadError")
          /\ UNCHANGED data
       \/ \E p \in Pages :
            /\ data' = [data EXCEPT !["AI Topics"] =
                          @ \o AITopicsLoop(run_tqdm(Page(p)))]
            /\ response' = [response EXCEPT !["AI Topics"] = FALSE]
            /\ session' = [session EXCEPT !["AI Topics"] = FALSE]
            /\ fetch' = [fetch EXCEPT !["AI Topics"] = "returned"]
            /\ mainPc' = "put_local"
    /\ UNCHANGED <<max_results, max_posts, tweet_feed, twPc, pulled,
                   scraped_tweets, subIdx, posts, articles, local_queue,
                   combined_data, joined, drain_left, df_data,
                   df_flattened_data, snapshot>>

\* Line 201 puts the three buffers on the queue created at line 190, a local
\* of run_scrapers; run_scrapers then returns and the loop is closed (231).
PutLocal ==
    /\ mainPc = "put_local"
    /\ local_queue' = Append(local_queue,
                             data["Reddit"] \o data["AI Weekly"]
                                \o data["AI Topics"])
    /\ mainPc' = "join"
    /\ UNCHANGED <<max_results, max_posts, tweet_feed, twPc, pulled,
                   scraped_tweets, data, fetch, session, response, subIdx,
                   posts, articles, combined_data, joined, drain_left,
                   df_data, df_flattened_data, snapshot>>

\* A join() that returns without waiting for the thread.
Join_nowait ==
    /\ mainPc = "join"
    /\ joined' = TRUE
    /\ mainPc' = "put"
    /\ UNCHANGED <<max_results, max_posts, tweet_feed, twPc, pulled,
                   scraped_tweets, data, fetch, session, response, subIdx,
                   posts, articles, local_queue, combined_data, drain_left,
                   df_data, df_flattened_data, snapshot>>

\* twitter_scraper.join() (lines 233, 98-99) returns once the thread has
\* ended, whether scrape returned or raised.
Join ==
    /\ mainPc = "join"
    /\ twPc \in {"done", "died"}
    /\ joined' = TRUE
    /\ mainPc' = "put"
    /\ UNCHANGED <<max_results, max_posts, tweet_feed, twPc, pulled,
                   scraped_tweets, data, fetch, session, response, subIdx,
                   posts, articles, local_queue, combined_data, drain_left,
                   df_data, df_flattened_data, snapshot>>

\* combined_data.put(twitter_scraper.data) (line 234), on main's own queue,
\* and the evaluation of range(combined_data.qsize()) (line 245).
Put ==
    /\ mainPc = "put"
    /\ combined_data' = Append(combined_data, data["Twitter"])
    /\ drain_left' = Len(combined_data')
    /\ df_data' = <<>>
    /\ mainPc' = "drain"
    /\ UNCHANGED <<max_results, max_posts, tweet_feed, twPc, pulled,
                   scraped_tweets, data, fetch, session, response, subIdx,
                   posts, articles, local_queue, joined, df_flattened_data,
                   snapshot>>

\* The comprehension of line 245 reading the head of the queue without
\* removing it.
Get_peek ==
    /\ mainPc = "drain"
    /\ drain_left > 0
    /\ combined_data # <<>>
    /\ df_data' = Append(df_data, Head(combined_data))
    /\ drain_left' = drain_left - 1
    /\ UNCHANGED <<max_results, max_posts, tweet_feed, mainPc, twPc,
                   pulled, scraped_tweets, data, fetch, session, response,
                   subIdx, posts, articles, local_queue, combined_data,
                   joined, df_flattened_data, snapshot>>

\* One combined_data.get() of the comprehension of line 245; get() blocks
\* while the queue is empty.
Get ==
    /\ mainPc = "drain"
    /\ drain_left > 0
    /\ combined_data # <<>>
    /\ df_data' = Append(df_data, Head(combined_data))
    /\ combined_data' = Tail(combined_data)
    /\ drain_left' = drain_left - 1
    /\ UNCHANGED <<max_results, max_posts, tweet_feed, mainPc, twPc,
                   pulled, scraped_tweets, data, fetch, session, response,
                   subIdx, posts, articles, local_queue, joined,
                   df_flattened_data, snapshot>>

\* line 246
Flatten ==
    /\ mainPc = "drain"
    /\ drain_left = 0
    /\ df_flattened_data' = chain_from_iterable(df_data)
    /\ mainPc' = "to_csv"
    /\ UNCHANGED <<max_results, max_posts, tweet_feed, twPc, pulled,
                   scraped_tweets, data, fetch, session, response, subIdx,
                   posts, articles, local_queue, combined_data, joined,
                   drain_left, df_data, snapshot>>

\* lines 248-249: the flattened rows go to the DataFrame and to_csv.
ToCsv ==
    /\ mainPc = "to_csv"
    /\ snapshot' = df_flattened_data
    /\ mainPc' = "done"
    /\ UNCHANGED <<max_results, max_posts, tweet_feed, twPc, pulled,
                   scraped_tweets, data, fetch, session, response, subIdx,
                   posts, articles, local_queue, combined_data, joined,
                   drain_left, df_data, df_flattened_data>>

Next ==
    \/ TwitterPull \/ TwitterAppend \/ TwitterExit
    \/ StartScrape \/ RunScrapers
    \/ RedditGet \/ RedditJson \/ RedditReturn
    \/ AIWeeklyEnter \/ AIWeeklyGet \/ AIWeeklyText \/ AIWeeklyReturn
    \/ AITopicsEnter \/ AITopicsGet \/ AITopicsText
    \/ PutLocal \/ Join \/ Put \/ Get \/ Flatten \/ ToCsv

Spec == Init /\ [][Next]_vars

TypeOK ==
    /\ max_results \in 0..MaxLimit
    /\ max_posts \in 0..MaxLimit
    /\ pulled \in 0..Len(tweet_feed)
    /\ twPc \in {"idle", "iter", "build", "done", "died"}
    /\ \A s \in Cooperative :
          fetch[s] \in {"idle", "running", "returned"} \cup Exceptions
    /\ joined \in BOOLEAN

\* ------------------------------------------------------------- properties
Range(seq) == {seq[i] : i \in DOMAIN seq}

RECURSIVE SumLen(_, _)
SumLen(f, S) ==
    IF S = {} THEN 0
    ELSE LET s == CHOOSE x \in S : TRUE
         IN  Len(f[s]) + SumLen(f, S \ {s})

\* The fetch of source s ended with an exception.
SourceFailed(s) ==
    IF s = "Twitter" THEN twPc = "died" ELSE fetch[s] \in Exceptions

\* The fetch of cooperative source s has returned or raised.
Settled(s) == fetch[s] \in {"returned"} \cup Exceptions

\* main has returned to its caller, normally or with an exception.
MainExited == mainPc \in {"done", "raised"}

\* main has exited and the Twitter thread has ended.
RunOver == MainExited /\ twPc \in {"done", "died"}

\* The fetch of source s raised on its very first upstream call.
FailedOnFirstCall(s) ==
    CASE s = "Twitter" -> twPc = "died" /\ pulled = 0
      [] s = "Reddit" -> fetch[s] = "ClientError" /\ subIdx = 1
      [] OTHER -> fetch[s] = "ClientError"

\* The rows of the merged collection that carry the platform tag of s.
RowsOf(s) == LET FromS(r) == r[1] = s IN SelectSeq(snapshot, FromS)

\* C1: when main reaches the snapshot writer and no source failed, the
\* merged collection has as many records as all four sources produced
\* together, and every record run_scrapers put on its channel is in it.
C1_MergeNonLossy ==
    (mainPc = "done" /\ \A s \in Sources : ~SourceFailed(s)) =>
        /\ Len(snapshot) = SumLen(data, Sources)
        /\ Range(chain_from_iterable(local_queue)) \subseteq Range(snapshot)

\* C2: when exactly one source raised on its first upstream call, after the
\* run that source has no record in the merged collection and every record
\* of every other source is in the merged collection.
C2_FailureIsolation ==
    \A s \in Sources :
        (RunOver /\ FailedOnFirstCall(s)
           /\ \A t \in Sources \ {s} : ~SourceFailed(t)) =>
             /\ RowsOf(s) = <<>>
             /\ \A t \in Sources \ {s} :
                   Range(data[t]) \subseteq Range(snapshot)

\* C3: a source whose fetch raised never makes main end with an exception.
C3_NoPropagation ==
    (\E s \in Sources : SourceFailed(s)) => mainPc # "raised"

\* C4: when a cooperative fetch has raised, every sibling cooperative fetch
\* has been started and has settled by the time main is over.
C4_SiblingsRun ==
    \A s \in Cooperative :
        (fetch[s] \in Exceptions /\ MainExited) =>
            \A t \in Cooperative \ {s} : Settled(t)

\* What main can read from twitter_scraper once join() has returned: the
\* record buffer and whether the thread is alive (lines 59-60).
Retrievable ==
    [data |-> data["Twitter"], alive |-> twPc \notin {"done", "died"}]

\* C5: after join() has returned on a Twitter thread whose fetch raised,
\* what the orchestrator retrieves differs from what it retrieves from a
\* fetch that succeeded with zero records.
C5_FailureRetrievable ==
    (joined /\ twPc = "died") =>
        Retrievable # [data |-> <<>>, alive |-> FALSE]

\* C6: main has exited only if the Twitter thread has been joined and every
\* cooperative fetch has settled.
C6_ExitAfterJoin ==
    MainExited =>
        /\ joined
        /\ twPc \in {"done", "died"}
        /\ \A s \in Cooperative : Settled(s)

\* C7: the Twitter buffer never holds more than max_results records, and
\* when scrape has returned it holds exactly the records of the first
\* min(max_results, n) upstream items, in upstream order.
C7_TwitterLimit ==
    /\ Len(data["Twitter"]) <= max_results
    /\ twPc = "done" =>
          data["Twitter"] =
             [i \in 1..Min(max_results, Len(tweet_feed)) |->
                 TweetRecord(tweet_feed[i])]

\* scrape has returned on a feed longer than the limit, with two records.
C7_Witness ==
    /\ twPc = "done"
    /\ Len(tweet_feed) > max_results
    /\ max_results = 2
    /\ Len(data["Twitter"]) = 2

\* C8: in the merged collection the records of each source are that
\* source's buffer, in its order, and no Twitter record precedes a record
\* of a cooperative source.
C8_MergedOrder ==
    mainPc = "done" =>
        /\ \A s \in Sources : RowsOf(s) = data[s]
        /\ \A i, j \in DOMAIN snapshot :
              (i < j) => ~(snapshot[i][1] \in Blocking
                            /\ snapshot[j][1] \in Cooperative)

\* Six fields, the platform tag first, a content, and for the two HTML
\* sources an empty id and an empty timestamp.
SixFields(s, r) ==
    /\ Len(r) = 6
    /\ r[1] = s
    /\ r[4] # ""
    /\ s \in {"AI Weekly", "AI Topics"} => (r[3] = "" /\ r[5] = "")

\* C9: every record in any source's buffer and every row of the merged
\* collection has exactly six fields in the fixed order, the fields a
\* source does not have being present and empty.
C9_SixFields ==
    /\ \A s \in Sources : \A i \in DOMAIN data[s] : SixFields(s, data[s][i])
    /\ \A i \in DOMAIN snapshot : \E s \in Sources : SixFields(s, snapshot[i])

\* main has written a snapshot and all four sources have emitted records.
C9_Witness ==
    /\ mainPc = "done"
    /\ snapshot # <<>>
    /\ \A s \in Sources : data[s] # <<>>

\* C10: once AI Weekly or Reddit has gone through the items of a response,
\* every well-formed item of it (within the limit, for Reddit) has its
\* record in the source's buffer, whatever the other items are.
C10_ItemErrorSkipped ==
    /\ (mainPc = "aiweekly_return" \/ fetch["AI Weekly"] = "AttributeError")
          => \A i \in DOMAIN articles :
                (articles[i].has_title /\ articles[i].has_link) =>
                    AIWeeklyRecord(articles[i]) \in Range(data["AI Weekly"])
    /\ ((mainPc = "reddit_get" /\ subIdx > 1) \/ fetch["Reddit"] = "KeyError")
          => \A i \in 1..Min(Len(posts), max_posts) :
                (PostKeys \subseteq DOMAIN posts[i]) =>
                    RedditRecord(posts[i]) \in Range(data["Reddit"])

\* C11: a run in which every source has failed or has produced no record
\* ends with main returning normally and an empty merged collection handed
\* to the snapshot writer.
C11_EmptyRunIsValid ==
    (MainExited /\ \A s \in Sources : SourceFailed(s) \/ data[s] = <<>>) =>
        (mainPc = "done" /\ snapshot = <<>>)

\* C12: whenever the loop waits on a running cooperative fetch, all three
\* have been started (they run together on the loop), and run_scrapers is
\* left normally only when all three have settled.
C12_CooperativeConcurrent ==
    /\ (\E s \in Cooperative : fetch[s] = "running") =>
          \A t \in Cooperative : fetch[t] # "idle"
    /\ mainPc \in {"join", "put", "drain", "to_csv", "done"} =>
          \A t \in Cooperative : Settled(t)

\* C13: the Twitter thread never takes more than max_results items from the
\* upstream iterator.
C13_NoPullBeyondLimit == pulled <= max_results

\* The records of the first k posts of a listing.
FirstRecords(listing, k) ==
    [i \in 1..Min(k, Len(listing)) |-> RedditRecord(listing[i])]

\* C14: while a fetch runs, and when its upstream has failed, the source's
\* buffer holds a record for every item retrieved so far (up to the limit):
\* for Twitter every item pulled, for Reddit the posts of the last listing.
C14_IncrementalOutput ==
    /\ twPc \in {"iter", "died"} =>
          Len(data["Twitter"]) = Min(pulled, max_results)
    /\ (mainPc \in {"reddit_get", "reddit_json"} /\ subIdx > 1) =>
          LET recs == FirstRecords(posts, max_posts)
              n == Len(data["Reddit"])
          IN  /\ Len(recs) <= n
              /\ SubSeq(data["Reddit"], n - Len(recs) + 1, n) = recs

\* C15: main reads twitter_scraper.data, drains its queue and writes only
\* when join() has returned on an ended Twitter thread and the three
\* cooperative fetches have returned, so the buffer it read is the final one.
C15_ReadAfterJoin ==
    /\ mainPc \in {"put", "drain", "to_csv", "done"} =>
          /\ joined
          /\ twPc \in {"done", "died"}
          /\ \A s \in Cooperative : fetch[s] = "returned"
    /\ mainPc = "done" => snapshot = data["Twitter"]

\* main is about to read the buffer of a Twitter thread that emitted records.
C15_Witness ==
    /\ mainPc = "put"
    /\ twPc = "done"
    /\ Len(data["Twitter"]) = 2

\* The step that changes the buffer of s is a step of the fetch of s.
Fetching(s) ==
    CASE s = "Twitter" -> twPc = "build"
      [] s = "Reddit" -> mainPc = "reddit_json"
      [] s = "AI Weekly" -> mainPc = "aiweekly_text"
      [] s = "AI Topics" -> mainPc = "aitopics_text"

\* C16: a step that changes the buffer of a source is a step of that
\* source's own fetch, it only appends, and it leaves the buffer of every
\* other source unchanged.
C16_OwnBufferOnly ==
    [][\A s \in Sources :
          data'[s] # data[s] =>
             /\ Fetching(s)
             /\ Len(data'[s]) > Len(data[s])
             /\ SubSeq(data'[s], 1, Len(data[s])) = data[s]
             /\ \A t \in Sources \ {s} : data'[t] = data[t]]_vars

\* The Twitter thread has appended while the Reddit fetch, which has
\* appended too, is still running.
C16_Witness ==
    /\ twPc = "build"
    /\ data["Twitter"] # <<>>
    /\ fetch["Reddit"] = "running"
    /\ data["Reddit"] # <<>>

\* C17: a cooperative source holds a session exactly while its fetch runs:
\* none before, one from entry on, and neither session nor response once
\* the fetch has returned or raised.
C17_SessionScoped ==
    \A s \in Cooperative :
        /\ fetch[s] = "running" => session[s]
        /\ response[s] => session[s]
        /\ (fetch[s] = "idle" \/ Settled(s)) =>
              (~session[s] /\ ~response[s])

\* Reddit has returned and AI Weekly has raised while reading its response.
C17_Witness ==
    /\ fetch["Reddit"] = "returned"
    /\ fetch["AI Weekly"] \in {"PayloadError", "AttributeError"}

C19_DrainNonBlocking ==
    /\ [](mainPc = "drain" =>
            /\ drain_left = Len(combined_data)
            /\ twPc \in {"done", "died"}
            /\ \A s \in Cooperative : fetch[s] = "returned")
    /\ [](mainPc \in {"to_csv", "done"} =>
            /\ combined_data = <<>>
            /\ drain_left = 0
            /\ df_data = <<data["Twitter"]>>)
    /\ [][(mainPc = "drain" /\ combined_data' # combined_data) =>
            /\ combined_data' = Tail(combined_data)
            /\ df_data' = Append(df_data, Head(combined_data))
            /\ drain_left' = drain_left - 1]_vars

\* The drain is over: the queue is empty and its one entry, a non-empty
\* Twitter buffer, has been taken.
C19_Witness ==
    /\ mainPc = "to_csv"
    /\ combined_data = <<>>
    /\ Len(df_data) = 1
    /\ df_data[1] # <<>>

\* C20: the Reddit buffer never holds more than len(subreddits) * max_posts
\* records, and each listing that the loop goes through is the one of the
\* next subreddit of the list and adds exactly the records of its first
\* min(max_posts, n_s) posts, in the order of the listing.
C20_PerSubredditLimit ==
    /\ [](Len(data["Reddit"]) <= Len(subreddits) * max_posts)
    /\ [][(mainPc = "reddit_json" /\ mainPc' = "reddit_get") =>
            /\ \A i \in DOMAIN posts' :
                  posts'[i]["id"] = subreddits[subIdx] \o "/id" \o ToString(i)
            /\ data'["Reddit"] =
                  data["Reddit"] \o FirstRecords(posts', max_posts)
            /\ subIdx' = subIdx + 1]_vars

\* Two subreddits have been gone through with max_posts = 2, the second
\* listing holding three posts: four records.
C20_Witness ==
    /\ mainPc = "reddit_get"
    /\ subIdx = 3
    /\ max_posts = 2
    /\ Len(posts) = 3
    /\ Len(data["Reddit"]) = 4

====
